---- MODULE Spec2Model ----
(***************************************************************************)
(* Dashboard header toolbar (Header, React 16 class component), the        *)
(* response utilities callbackHandler / json, and the component type       *)
(* registry of the dashboard builder.                                      *)
(*                                                                         *)
(* Header: props are delivered by the redux store (componentWillReceive-   *)
(* Props), user interaction goes through the rendered controls, the        *)
(* emphasis pulse uses setState callbacks and the platform's setTimeout.   *)
(***************************************************************************)
EXTENDS Integers, Sequences, FiniteSets, TLC

VARIABLES
    mounted,        \* the Header instance is mounted
    props,          \* this.props
    state,          \* this.state (a function from the keys that are set)
    ctrlZTimeout,   \* this.ctrlZTimeout (0: undefined)
    ctrlYTimeout,   \* this.ctrlYTimeout (0: undefined)
    updateQueue,    \* setState calls with callbacks, not yet committed
    view,           \* what the last render() produced
    timers,         \* the platform's armed setTimeout timers
    store,          \* redux dashboardState written by the Header's dispatches
    toastCalls,     \* calls of props.maxUndoHistoryToast
    exceededCalls,  \* calls of props.setMaxUndoHistoryExceeded
    lastIntent,     \* the last call of props.onUndo / props.onRedo
    saveCalls,      \* calls of overwriteDashboard
    saveRequests,   \* calls of props.onSave, in order
    savePending,    \* onSave requests not yet settled
    seenAtLimit,    \* history: an update with undoLength >= UNDO_LIMIT arrived
    seenAboveLimit, \* history: an update with undoLength > UNDO_LIMIT arrived
    sinceCall,      \* history: ms since the last handleCtrlZ / handleCtrlY call
    restarted,      \* history: controls whose armed timer was cancelled by a new call
    utilCall,       \* response utilities / registry: the call made
    utilResult      \* response utilities / registry: what the call did

headerVars == <<mounted, props, state, ctrlZTimeout, ctrlYTimeout, updateQueue, view>>
platformVars == <<timers, store>>
callVars == <<toastCalls, exceededCalls, lastIntent, saveCalls, saveRequests, savePending>>
historyVars == <<seenAtLimit, seenAboveLimit, sinceCall, restarted>>
utilVars == <<utilCall, utilResult>>
vars == <<headerVars, platformVars, callVars, historyVars, utilVars>>

\* ---------------------------------------------------------------- bounds

\* updates deliver undoLength in 0 .. UNDO_LIMIT + MaxOver
MaxOver == 2
\* updates deliver redoLength in 0 .. MaxRedoLength
MaxRedoLength == 1
\* calls counted up to MaxCalls (the counters saturate there)
MaxCalls == 2
\* overwriteDashboard calls in one behaviour
MaxSaves == 2
\* setState calls waiting for one commit
MaxQueue == 2
\* timer ids in use at once
MaxTimerId == 4
\* the clock advances TickMs at a time
TickMs == 50

\* ------------------------------------------------------------- constants

\* import { UNDO_LIMIT, SAVE_TYPE_OVERWRITE } from '../util/constants'
UNDO_LIMIT == 2
SAVE_TYPE_OVERWRITE == "overwriteDashboard"

\* setTimeout(..., 100) in handleCtrlY and handleCtrlZ
PULSE_MS == 100

Min(a, b) == IF a < b THEN a ELSE b
Max(a, b) == IF a > b THEN a ELSE b
MaxElapsed == PULSE_MS + TickMs

\* ------------------------------------------------------------ this.state

\* this.state[key] is truthy (a key that was never set is undefined)
Truthy(s, key) == key \in DOMAIN s /\ s[key]

\* setState(patch): shallow merge
Merge(s, patch) ==
    [k \in DOMAIN s \cup DOMAIN patch |->
        IF k \in DOMAIN patch THEN patch[k] ELSE s[k]]

InitialState(p) ==
    [didNotifyMaxUndoHistoryToast |-> FALSE,
     emphasizeUndo |-> FALSE,
     hightlightRedo |-> FALSE,
     showV2PreviewModal |-> p.isV2Preview]

\* --------------------------------------------------------------- render()

userCanEdit(p) == p.dashboardInfo.dash_edit_perm
userCanSaveAs_EditPerm(p) == p.dashboardInfo.dash_edit_perm
userCanSaveAs(p) == p.dashboardInfo.dash_save_perm

SaveButtonShown(p) == p.editMode /\ (p.hasUnsavedChanges \/ p.isV2Preview)

\* the elements of the button container that render() emits
Rendered(p) ==
    IF ~userCanSaveAs(p) THEN {}
    ELSE {"actions"}
         \cup (IF p.editMode THEN {"undo", "redo", "builder", "keylisteners"} ELSE {})
         \cup (IF SaveButtonShown(p) THEN {"save"} ELSE {})
         \cup (IF ~p.editMode /\ p.isV2Preview THEN {"edit"} ELSE {})
         \cup (IF ~p.editMode /\ ~p.isV2Preview /\ ~p.hasUnsavedChanges
               THEN {"editDashboard"} ELSE {})
         \cup (IF p.editMode /\ ~p.isV2Preview /\ ~p.hasUnsavedChanges
               THEN {"viewMode"} ELSE {})

\* the rendered buttons that carry disabled=true
Disabled(p) ==
    Rendered(p) \cap
        ((IF p.undoLength < 1 THEN {"undo"} ELSE {})
         \cup (IF p.redoLength < 1 THEN {"redo"} ELSE {})
         \cup (IF ~userCanEdit(p) THEN {"edit", "editDashboard", "viewMode"} ELSE {}))

\* the rendered buttons with bsStyle 'primary'
Primary(p, s) ==
    Rendered(p) \cap
        ((IF Truthy(s, "emphasizeUndo") THEN {"undo"} ELSE {})
         \cup (IF Truthy(s, "emphasizeRedo") THEN {"redo"} ELSE {})
         \cup (IF p.hasUnsavedChanges \/ p.isV2Preview
               THEN {"save", "edit", "editDashboard"} ELSE {}))

Render(p, s) ==
    [rendered |-> Rendered(p), disabled |-> Disabled(p), primary |-> Primary(p, s)]

Clickable(v, button) == button \in v.rendered /\ button \notin v.disabled

\* -------------------------------------------------- platform: setTimeout

TimerIds == 1 .. MaxTimerId
ArmedIds(tm) == {t.id : t \in tm}

\* a timer id the platform has not handed out to a live reference: timer ids
\* are never reused while armed or while a field still holds them
FreshId(tm, z, y) ==
    LET free == TimerIds \ (ArmedIds(tm) \cup {z, y})
    IN  IF free = {} THEN 0 ELSE CHOOSE i \in free : \A j \in free : i <= j

\* clearTimeout(id): a no-op for undefined and for a timer that already fired
ClearTimeout(tm, id) == {t \in tm : t.id # id}

\* setTimeout(() => this.setState({ [key]: false }), 100)
PulseTimer_Short(id, key) == [id |-> id, key |-> key, remaining |-> PULSE_MS - TickMs]
PulseTimer(id, key) == [id |-> id, key |-> key, remaining |-> PULSE_MS]

\* ------------------------------------------------ redux store (dispatches)

\* setMaxUndoHistoryExceeded(): the sticky flag of the edit session
SetMaxUndoHistoryExceeded(st) == [st EXCEPT !.maxUndoHistoryExceeded = TRUE]

\* setEditMode(editMode)
SetEditMode(st, editMode) == [st EXCEPT !.editMode = editMode]

\* ------------------------------------------ componentWillReceiveProps(nextProps)

ShouldNotifyToast_Strict(nextProps, s) ==
    UNDO_LIMIT - nextProps.undoLength < 0 /\ ~s.didNotifyMaxUndoHistoryToast
ShouldNotifyToast(nextProps, s) ==
    UNDO_LIMIT - nextProps.undoLength <= 0 /\ ~s.didNotifyMaxUndoHistoryToast

ShouldSetExceeded_Far(nextProps, p) ==
    nextProps.undoLength > UNDO_LIMIT + 1 /\ ~p.maxUndoHistoryExceeded
ShouldSetExceeded(nextProps, p) ==
    nextProps.undoLength > UNDO_LIMIT /\ ~p.maxUndoHistoryExceeded

Count(n) == Min(n + 1, MaxCalls)

\* ----------------------------------------- setState callbacks of handleCtrlZ/Y

EmphasisKey(ctrl) == IF ctrl = "Z" THEN "emphasizeUndo" ELSE "emphasizeRedo"

\* if (this.ctrlXTimeout) clearTimeout(this.ctrlXTimeout)
ClearOutstanding_Skip(tm, id) == tm
ClearOutstanding(tm, id) == IF id # 0 THEN ClearTimeout(tm, id) ELSE tm

\* the callback handed to setState by handleCtrlZ (ctrl = "Z") or handleCtrlY
\* (ctrl = "Y"), run on env = [z, y, timers, restarted, ok]
PulseCallback(ctrl, env) ==
    LET held    == IF ctrl = "Z" THEN env.z ELSE env.y
        cleared == ClearOutstanding(env.timers, held)
        id      == FreshId(cleared, env.z, env.y)
        armed   == cleared \cup {PulseTimer(id, EmphasisKey(ctrl))}
    IN  IF id = 0 THEN [env EXCEPT !.ok = FALSE]
        ELSE [z         |-> IF ctrl = "Z" THEN id ELSE env.z,
              y         |-> IF ctrl = "Y" THEN id ELSE env.y,
              timers    |-> armed,
              restarted |-> IF held \in ArmedIds(env.timers)
                            THEN env.restarted \cup {ctrl} ELSE env.restarted,
              ok        |-> env.ok]

\* the state after the queued setState patches are merged, in order
RECURSIVE ApplyPatches(_, _)
ApplyPatches(s, queue) ==
    IF queue = <<>> THEN s
    ELSE ApplyPatches(Merge(s, EmphasisKey(Head(queue)) :> TRUE), Tail(queue))

\* the callbacks of the committed setState calls, in order
RECURSIVE RunCallbacks(_, _)
RunCallbacks(queue, env) ==
    IF queue = <<>> THEN env
    ELSE RunCallbacks(Tail(queue), PulseCallback(Head(queue), env))

\* one React commit of the Header: patches merged, then the callbacks
Commit(s, queue) ==
    [state |-> ApplyPatches(s, queue),
     env   |-> RunCallbacks(queue, [z |-> ctrlZTimeout, y |-> ctrlYTimeout,
                                    timers |-> timers, restarted |-> restarted,
                                    ok |-> TRUE])]

\* ------------------------------------------------------ JSON.stringify

Quoted(str) == "\"" \o str \o "\""

\* JSON.stringify of an array of strings
RECURSIVE StringifyItems(_)
StringifyItems(vals) ==
    IF vals = <<>> THEN ""
    ELSE Quoted(Head(vals))
         \o (IF Tail(vals) = <<>> THEN "" ELSE ",")
         \o StringifyItems(Tail(vals))

\* JSON.stringify of the filters object { sliceId: { column: [values] } },
\* given as its entries in key order
RECURSIVE StringifyEntries(_)
StringifyEntries(entries) ==
    IF entries = <<>> THEN ""
    ELSE Quoted(Head(entries).slice) \o ":{" \o Quoted(Head(entries).column)
         \o ":[" \o StringifyItems(Head(entries).values) \o "]}"
         \o (IF Tail(entries) = <<>> THEN "" ELSE ",")
         \o StringifyEntries(Tail(entries))

JSONStringify(filters) == "{" \o StringifyEntries(filters) \o "}"

\* ---------------------------------------------------- overwriteDashboard()

SavePayload_TitleFromCss(p) ==
    [positions |-> p.layout,
     expanded_slices |-> p.expandedSlices,
     css |-> p.css,
     dashboard_title |-> p.css,
     default_filters |-> JSONStringify(p.filters)]
SavePayload(p) ==
    [positions |-> p.layout,
     expanded_slices |-> p.expandedSlices,
     css |-> p.css,
     dashboard_title |-> p.dashboardTitle,
     default_filters |-> JSONStringify(p.filters)]

\* this.props.onSave(data, dashboardInfo.id, SAVE_TYPE_OVERWRITE)
SaveRequest(p) ==
    [data |-> SavePayload(p), id |-> p.dashboardInfo.id, saveType |-> SAVE_TYPE_OVERWRITE]

\* ------------------------------------------------------------ the inputs

\* the dashboards the store can hold: layout, expanded slices, css, title, filters
Contents ==
    { [dashboardTitle |-> "Sales", layout |-> "ROOT>GRID", expandedSlices |-> {},
       css |-> "", filters |-> <<>>],
      [dashboardTitle |-> "Sales Q3", layout |-> "ROOT>GRID>ROW>CHART-7",
       expandedSlices |-> {7}, css |-> ".a{}",
       filters |-> <<[slice |-> "7", column |-> "region", values |-> <<"EU", "US">>]>>],
      [dashboardTitle |-> "Ops", layout |-> "ROOT>GRID>TABS",
       expandedSlices |-> {7, 9}, css |-> ".b{}",
       filters |-> <<[slice |-> "7", column |-> "region", values |-> <<>>],
                     [slice |-> "9", column |-> "year", values |-> <<"2018">>]>>] }

WithContent(p, c) ==
    [p EXCEPT !.dashboardTitle = c.dashboardTitle, !.layout = c.layout,
              !.expandedSlices = c.expandedSlices, !.css = c.css,
              !.filters = c.filters]

\* the props of a freshly loaded dashboard
LoadedProps(editPerm, savePerm, v2, editMode) ==
    [dashboardInfo |-> [id |-> 12, dash_edit_perm |-> editPerm, dash_save_perm |-> savePerm],
     dashboardTitle |-> "Sales", layout |-> "ROOT>GRID", expandedSlices |-> {},
     css |-> "", filters |-> <<>>,
     editMode |-> editMode, isV2Preview |-> v2, hasUnsavedChanges |-> FALSE,
     maxUndoHistoryExceeded |-> FALSE, undoLength |-> 0, redoLength |-> 0]

\* what connect() hands the Header from the store's own fields
FromStore(p) ==
    [p EXCEPT !.editMode = store.editMode,
              !.maxUndoHistoryExceeded = store.maxUndoHistoryExceeded]

\* updates of the undo history (the history collaborator decides the lengths)
HistoryUpdates ==
    { [FromStore(props) EXCEPT !.undoLength = u, !.redoLength = r,
                               !.hasUnsavedChanges = h] :
        u \in 0 .. (UNDO_LIMIT + MaxOver), r \in 0 .. MaxRedoLength, h \in BOOLEAN }

\* updates of the dashboard's content
ContentUpdates ==
    { [WithContent(FromStore(props), c) EXCEPT !.hasUnsavedChanges = h] :
        c \in Contents, h \in BOOLEAN }

\* updates while the user undoes and redoes with a short history
UndoUpdates ==
    { [FromStore(props) EXCEPT !.undoLength = u, !.redoLength = r] :
        u \in 0 .. 1, r \in 0 .. 1 }

\* ------------------------------------------------------------------ Init

InitUtil == utilCall = [fn |-> "none"] /\ utilResult = [kind |-> "none"]

InitHeader(editPerms, savePerms, v2s, editModes) ==
    /\ \E e \in editPerms, sp \in savePerms, v \in v2s, m \in editModes :
          /\ props = LoadedProps(e, sp, v, m)
          /\ state = InitialState(props)
          /\ view = Render(props, state)
          /\ store = [editMode |-> m, maxUndoHistoryExceeded |-> FALSE]
    /\ mounted = TRUE
    /\ ctrlZTimeout = 0
    /\ ctrlYTimeout = 0
    /\ updateQueue = <<>>
    /\ timers = {}
    /\ toastCalls = 0
    /\ exceededCalls = 0
    /\ lastIntent = [kind |-> "none", length |-> 0]
    /\ saveCalls = 0
    /\ saveRequests = <<>>
    /\ savePending = 0
    /\ seenAtLimit = FALSE
    /\ seenAboveLimit = FALSE
    /\ sinceCall = [c \in {"Z", "Y"} |-> -1]
    /\ restarted = {}

\* a Header constructed with any permissions, preview flag and edit mode
Init == InitHeader(BOOLEAN, BOOLEAN, BOOLEAN, BOOLEAN) /\ InitUtil

\* --------------------------------------------------------------- actions

\* componentWillReceiveProps(nextProps), then the update it is part of: the
\* queued state updater and any setState waiting for this commit are
\* applied, render() runs and nextProps become this.props
ReceiveProps(nextProps) ==
    LET notify == ShouldNotifyToast(nextProps, state)
        exceed == ShouldSetExceeded(nextProps, props)
        after  == Commit(IF notify
                         THEN Merge(state, "didNotifyMaxUndoHistoryToast" :> TRUE)
                         ELSE state, updateQueue)
    IN  /\ mounted
        /\ after.env.ok
        /\ toastCalls' = IF notify THEN Count(toastCalls) ELSE toastCalls
        /\ exceededCalls' = IF exceed THEN Count(exceededCalls) ELSE exceededCalls
        /\ store' = IF exceed THEN SetMaxUndoHistoryExceeded(store) ELSE store
        /\ state' = after.state
        /\ ctrlZTimeout' = after.env.z
        /\ ctrlYTimeout' = after.env.y
        /\ timers' = after.env.timers
        /\ restarted' = after.env.restarted
        /\ updateQueue' = <<>>
        /\ props' = nextProps
        /\ view' = Render(nextProps, after.state)
        /\ seenAtLimit' = (seenAtLimit \/ nextProps.undoLength >= UNDO_LIMIT)
        /\ seenAboveLimit' = (seenAboveLimit \/ nextProps.undoLength > UNDO_LIMIT)
        /\ UNCHANGED <<mounted, lastIntent, saveCalls, saveRequests, savePending,
                       sinceCall, utilVars>>

\* the undo button: onClick={onUndo}, disabled={undoLength < 1}
ClickUndo ==
    /\ mounted
    /\ Clickable(view, "undo")
    /\ lastIntent' = [kind |-> "undo", length |-> props.undoLength]
    /\ UNCHANGED <<headerVars, platformVars, toastCalls, exceededCalls, saveCalls,
                   saveRequests, savePending, historyVars, utilVars>>

\* the redo button: onClick={onRedo}, disabled={redoLength < 1}
ClickRedo ==
    /\ mounted
    /\ Clickable(view, "redo")
    /\ lastIntent' = [kind |-> "redo", length |-> props.redoLength]
    /\ UNCHANGED <<headerVars, platformVars, toastCalls, exceededCalls, saveCalls,
                   saveRequests, savePending, historyVars, utilVars>>

\* handleCtrlZ (ctrl = "Z") and handleCtrlY (ctrl = "Y"): forward the intent,
\* then setState({ emphasize...: true }, callback)
HandleCtrl(ctrl) ==
    /\ Len(updateQueue) < MaxQueue
    /\ lastIntent' = IF ctrl = "Z"
                     THEN [kind |-> "undo", length |-> props.undoLength]
                     ELSE [kind |-> "redo", length |-> props.redoLength]
    /\ updateQueue' = Append(updateQueue, ctrl)
    /\ sinceCall' = [sinceCall EXCEPT ![ctrl] = 0]
    /\ UNCHANGED <<mounted, props, state, ctrlZTimeout, ctrlYTimeout, view,
                   platformVars, toastCalls, exceededCalls, saveCalls, saveRequests,
                   savePending, seenAtLimit, seenAboveLimit, restarted, utilVars>>

\* <UndoRedoKeylisteners onUndo={this.handleCtrlZ} .../>: ctrl+z
KeyCtrlZ ==
    /\ mounted
    /\ "keylisteners" \in view.rendered
    /\ HandleCtrl("Z")

\* <UndoRedoKeylisteners ... onRedo={this.handleCtrlY} />: ctrl+y
KeyCtrlY ==
    /\ mounted
    /\ "keylisteners" \in view.rendered
    /\ HandleCtrl("Y")

\* React commits the queued setState calls of the Header: the patches are
\* merged, render() runs, then the callbacks run in order
FlushUpdates ==
    LET after == Commit(state, updateQueue)
    IN  /\ mounted
        /\ updateQueue # <<>>
        /\ after.env.ok
        /\ state' = after.state
        /\ ctrlZTimeout' = after.env.z
        /\ ctrlYTimeout' = after.env.y
        /\ timers' = after.env.timers
        /\ restarted' = after.env.restarted
        /\ updateQueue' = <<>>
        /\ view' = Render(props, after.state)
        /\ UNCHANGED <<mounted, props, store, callVars, seenAtLimit, seenAboveLimit,
                       sinceCall, utilVars>>

\* a pulse timer fires: this.setState({ emphasize...: false }); a timer fires
\* no earlier than its delay and only between tasks
TimerFire ==
    \E t \in timers :
        /\ t.remaining = 0
        /\ updateQueue = <<>>
        /\ timers' = timers \ {t}
        /\ state' = IF mounted THEN Merge(state, t.key :> FALSE) ELSE state
        /\ view' = IF mounted THEN Render(props, state') ELSE view
        /\ UNCHANGED <<mounted, props, ctrlZTimeout, ctrlYTimeout, updateQueue, store,
                       callVars, historyVars, utilVars>>

\* TickMs pass; time passes between tasks only
Tick ==
    /\ updateQueue = <<>>
    /\ timers' = {[t EXCEPT !.remaining = Max(0, t.remaining - TickMs)] : t \in timers}
    /\ sinceCall' = [c \in DOMAIN sinceCall |->
                        IF sinceCall[c] < 0 THEN sinceCall[c]
                        ELSE Min(sinceCall[c] + TickMs, MaxElapsed)]
    /\ UNCHANGED <<headerVars, store, callVars, seenAtLimit, seenAboveLimit,
                   restarted, utilVars>>

\* toggleEditMode(): one of the three edit / view-mode buttons
ToggleEditMode ==
    /\ mounted
    /\ \E b \in {"edit", "editDashboard", "viewMode"} : Clickable(view, b)
    /\ store' = SetEditMode(store, ~props.editMode)
    /\ UNCHANGED <<headerVars, timers, callVars, historyVars, utilVars>>

\* overwriteDashboard(): the save button
OverwriteDashboard ==
    /\ mounted
    /\ Clickable(view, "save")
    /\ saveCalls < MaxSaves
    /\ saveCalls' = saveCalls + 1
    /\ saveRequests' = Append(saveRequests, SaveRequest(props))
    /\ savePending' = savePending + 1
    /\ UNCHANGED <<headerVars, platformVars, toastCalls, exceededCalls, lastIntent,
                   historyVars, utilVars>>

\* the persistence collaborator reports success or failure of a save; the
\* Header has no handler for either
SaveSettled ==
    /\ savePending > 0
    /\ \E ok \in BOOLEAN : savePending' = savePending - 1
    /\ UNCHANGED <<headerVars, platformVars, toastCalls, exceededCalls, lastIntent,
                   saveCalls, saveRequests, historyVars, utilVars>>

Unmount_ClearsOnlyY ==
    /\ mounted
    /\ mounted' = FALSE
    /\ timers' = ClearTimeout(timers, ctrlYTimeout)
    /\ updateQueue' = <<>>
    /\ UNCHANGED <<props, state, ctrlZTimeout, ctrlYTimeout, view, store, callVars,
                   historyVars, utilVars>>

\* componentWillUnmount(): both timers cleared; React drops the updates of
\* an unmounted component
Unmount ==
    /\ mounted
    /\ mounted' = FALSE
    /\ timers' = ClearTimeout(ClearTimeout(timers, ctrlYTimeout), ctrlZTimeout)
    /\ updateQueue' = <<>>
    /\ UNCHANGED <<props, state, ctrlZTimeout, ctrlYTimeout, view, store, callVars,
                   historyVars, utilVars>>

\* -------------------------------------------------------- specifications

\* the edit session: history updates, the buttons, edit mode and saving
Next ==
    \/ \E np \in HistoryUpdates : ReceiveProps(np)
    \/ ClickUndo
    \/ ClickRedo
    \/ ToggleEditMode
    \/ OverwriteDashboard
    \/ SaveSettled

Spec == Init /\ [][Next]_vars

\* saving: content updates, edit mode and the save button
NextSave ==
    \/ \E np \in ContentUpdates : ReceiveProps(np)
    \/ ToggleEditMode
    \/ OverwriteDashboard
    \/ SaveSettled

SpecSave == Init /\ [][NextSave]_vars

\* the emphasis pulse: keyboard undo / redo, commits, timers and the clock
InitPulse == InitHeader({TRUE}, {TRUE}, {FALSE}, {FALSE}) /\ InitUtil

NextPulse ==
    \/ ReceiveProps(FromStore(props))
    \/ ToggleEditMode
    \/ KeyCtrlZ
    \/ KeyCtrlY
    \/ FlushUpdates
    \/ TimerFire
    \/ Tick
    \/ Unmount

SpecPulse == InitPulse /\ [][NextPulse]_vars

\* undo / redo by button and by keyboard while the history changes
NextUndo ==
    \/ \E np \in UndoUpdates : ReceiveProps(np)
    \/ ToggleEditMode
    \/ ClickUndo
    \/ ClickRedo
    \/ KeyCtrlZ
    \/ KeyCtrlY
    \/ FlushUpdates
    \/ TimerFire
    \/ Tick

SpecUndo == InitPulse /\ [][NextUndo]_vars

\* ---------------------------------------------------- response utilities

\* JavaScript values of response.status
Num(n) == [t |-> "number", v |-> n]
Str(str) == [t |-> "string", s |-> str]
Undefined == [t |-> "undefined"]

\* a === 200
StrictEq200(a) == a.t = "number" /\ a.v = 200

\* a == 404: a numeric string is converted to its number first
LooseEq404(a) == (a.t = "number" /\ a.v = 404) \/ (a.t = "string" /\ a.s = "404")

Statuses == {Num(200), Num(201), Num(404), Num(500), Str("200"), Str("404"), Undefined}
Datas == {"{a:1}", "[]", "undefined"}
Messages == {"err", "not found", "undefined"}

\* the responses handed to callbackHandler
CallbackResponses ==
    {[status |-> st, data |-> d, message |-> m] : st \in Statuses, d \in Datas, m \in Messages}

\* callbackHandler(response, callback): the calls of callback it makes
callbackHandler_AnySuccess(response, hasCallback) ==
    IF hasCallback
    THEN <<[success |-> response.status.t = "number" /\ response.status.v < 300,
            payload |-> IF response.status.t = "number" /\ response.status.v < 300
                        THEN response.data ELSE response.message]>>
    ELSE <<>>
callbackHandler(response, hasCallback) ==
    IF hasCallback
    THEN <<[success |-> IF StrictEq200(response.status) THEN TRUE ELSE FALSE,
            payload |-> IF StrictEq200(response.status)
                        THEN response.data ELSE response.message]>>
    ELSE <<>>

\* the responses handed to json: none (null / undefined), or an object with or
\* without a json method, a status and possibly a body
Bodies == {"none", "{\"a\":1}", "not json"}
JsonResponses ==
    {[present |-> FALSE, hasJson |-> FALSE, status |-> Undefined, body |-> "none"]}
    \cup {[present |-> TRUE, hasJson |-> j, status |-> st, body |-> b] :
            j \in BOOLEAN, st \in Statuses, b \in Bodies}

\* response.json(): the promise of the decoded body
ResponseJson(response) == [promiseOfBody |-> response.body]

\* json(response)
json_No404Test(response) ==
    IF ~response.present \/ ~response.hasJson
    THEN [kind |-> "throw", error |-> "no response", value |-> [promiseOfBody |-> "none"]]
    ELSE [kind |-> "return", error |-> "", value |-> ResponseJson(response)]
json(response) ==
    IF ~response.present \/ ~response.hasJson \/ LooseEq404(response.status)
    THEN [kind |-> "throw", error |-> "no response", value |-> [promiseOfBody |-> "none"]]
    ELSE [kind |-> "return", error |-> "", value |-> ResponseJson(response)]

\* ------------------------------------------------ component type registry

\* the default export: { [NEW_CHART_ID]: CHART_TYPE, ... }
Registry ==
    [id \in {"NEW_CHART_ID", "NEW_COLUMN_ID", "NEW_DIVIDER_ID", "NEW_HEADER_ID",
             "NEW_MARKDOWN_ID", "NEW_ROW_ID", "NEW_TABS_ID", "NEW_TAB_ID"} |->
        CASE id = "NEW_CHART_ID" -> "CHART_TYPE"
          [] id = "NEW_COLUMN_ID" -> "COLUMN_TYPE"
          [] id = "NEW_DIVIDER_ID" -> "DIVIDER_TYPE"
          [] id = "NEW_HEADER_ID" -> "HEADER_TYPE"
          [] id = "NEW_MARKDOWN_ID" -> "MARKDOWN_TYPE"
          [] id = "NEW_ROW_ID" -> "ROW_TYPE"
          [] id = "NEW_TABS_ID" -> "TABS_TYPE"
          [] id = "NEW_TAB_ID" -> "TAB_TYPE"]

\* the members an object literal inherits from Object.prototype
ObjectPrototype ==
    {"constructor", "hasOwnProperty", "isPrototypeOf", "propertyIsEnumerable",
     "toLocaleString", "toString", "valueOf", "__proto__"}

\* ids that are neither registered nor inherited names
OtherIds == {"NEW_POPUP_ID", "DASHBOARD_CHART_TYPE-abc", "CHART-7", ""}

LookupIds == DOMAIN Registry \cup ObjectPrototype \cup OtherIds

\* registry[id]: an own property, else the prototype chain, else undefined
Lookup(id) ==
    IF id \in DOMAIN Registry THEN [kind |-> "type", value |-> Registry[id]]
    ELSE IF id \in ObjectPrototype THEN [kind |-> "inherited", value |-> id]
    ELSE [kind |-> "undefined", value |-> ""]

CallCallbackHandler ==
    /\ \E response \in CallbackResponses, hasCallback \in BOOLEAN :
          /\ utilCall' = [fn |-> "callbackHandler", response |-> response,
                          hasCallback |-> hasCallback]
          /\ utilResult' = [kind |-> "calls", calls |-> callbackHandler(response, hasCallback)]
    /\ UNCHANGED <<headerVars, platformVars, callVars, historyVars>>

CallJson ==
    /\ \E response \in JsonResponses :
          /\ utilCall' = [fn |-> "json", response |-> response]
          /\ utilResult' = json(response)
    /\ UNCHANGED <<headerVars, platformVars, callVars, historyVars>>

CallLookup ==
    /\ \E id \in LookupIds :
          /\ utilCall' = [fn |-> "lookup", id |-> id]
          /\ utilResult' = Lookup(id)
    /\ UNCHANGED <<headerVars, platformVars, callVars, historyVars>>

\* the response utilities and the registry, called with every input
InitUtilOnly == InitHeader({TRUE}, {TRUE}, {FALSE}, {FALSE}) /\ InitUtil

NextUtil ==
    \/ CallCallbackHandler
    \/ CallJson
    \/ CallLookup

SpecUtil == InitUtilOnly /\ [][NextUtil]_vars

\* ----------------------------------------------------------------- claims

\* C1: maxUndoHistoryToast has been called exactly once if some update had
\* undoLength >= UNDO_LIMIT and never otherwise: it is called at the first
\* such update and no later update calls it again.
C1_ToastExactlyOnce == toastCalls = (IF seenAtLimit THEN 1 ELSE 0)

\* the toast fired, and updates above and at the limit followed one another
C1_Witness ==
    /\ toastCalls = 1
    /\ seenAboveLimit
    /\ props.undoLength = UNDO_LIMIT
    /\ state.didNotifyMaxUndoHistoryToast

\* C2: once an update with undoLength > UNDO_LIMIT was received, the
\* session's maxUndoHistoryExceeded flag is true in every later state,
\* whatever undo, redo, edit-mode and save operations follow.
C2_ExceededSticky == seenAboveLimit => store.maxUndoHistoryExceeded

\* the limit was exceeded, the history shrank again, an undo and a save followed
C2_Witness ==
    /\ seenAboveLimit
    /\ props.undoLength < UNDO_LIMIT
    /\ props.maxUndoHistoryExceeded
    /\ lastIntent.kind = "undo"
    /\ saveCalls > 0
    /\ savePending = 0

Flag(ctrl) == Truthy(state, EmphasisKey(ctrl))
Armed(ctrl) == {t \in timers : t.key = EmphasisKey(ctrl)}
Pending(ctrl) == \E i \in 1 .. Len(updateQueue) : updateQueue[i] = ctrl

\* C3 as stated: the emphasis flag of a control is true from each call until
\* exactly 100ms after the most recent call on that control and false at all
\* other times, never longer than 100ms after the last call.
C3_ExactlyPulseMs ==
    mounted =>
        \A ctrl \in {"Z", "Y"} :
            /\ Flag(ctrl) => (sinceCall[ctrl] >= 0 /\ sinceCall[ctrl] <= PULSE_MS)
            /\ (sinceCall[ctrl] >= 0 /\ sinceCall[ctrl] < PULSE_MS /\ ~Pending(ctrl))
                    => Flag(ctrl)

\* C3 amended: while the Header is mounted the flag of a control is true
\* exactly while a pulse timer of that control is armed; that timer fires no
\* earlier than 100ms after the most recent committed call on the control (a
\* call inside the window restarts it), so the flag is true for at least
\* 100ms after the most recent call and until the timer fires, which may be
\* later.
C3_AtLeastPulseMs ==
    mounted =>
        \A ctrl \in {"Z", "Y"} :
            /\ Flag(ctrl) <=> Armed(ctrl) # {}
            /\ ~Pending(ctrl) =>
                    \A t \in Armed(ctrl) : t.remaining + sinceCall[ctrl] >= PULSE_MS
            /\ (sinceCall[ctrl] >= 0 /\ sinceCall[ctrl] < PULSE_MS /\ ~Pending(ctrl))
                    => Flag(ctrl)

\* a restarted undo pulse whose timer is due but has not fired yet
C3_Witness ==
    /\ mounted
    /\ "Z" \in restarted
    /\ Flag("Z")
    /\ sinceCall["Z"] > PULSE_MS
    /\ \E t \in Armed("Z") : t.remaining = 0

\* C4: at most one pulse timer per control is armed in every reachable state.
C4_OneTimerPerControl ==
    \A ctrl \in {"Z", "Y"} : Cardinality(Armed(ctrl)) <= 1

\* both controls were called again inside their window, and one timer each is armed
C4_Witness ==
    /\ restarted = {"Z", "Y"}
    /\ Cardinality(Armed("Z")) = 1
    /\ Cardinality(Armed("Y")) = 1

\* C5: no interaction with the Header forwards an undo intent while
\* undoLength < 1 or a redo intent while redoLength < 1.
C5_NoIntentOnEmptyHistory ==
    lastIntent.kind \in {"undo", "redo"} => lastIntent.length >= 1

\* C6: the save button is rendered only if dash_save_perm holds, whatever
\* dash_edit_perm is, and with dash_save_perm it is rendered exactly when
\* editMode and (hasUnsavedChanges or isV2Preview).
C6_SaveNeedsSavePerm ==
    /\ "save" \in view.rendered => props.dashboardInfo.dash_save_perm
    /\ props.dashboardInfo.dash_save_perm =>
          ("save" \in view.rendered
              <=> (props.editMode /\ (props.hasUnsavedChanges \/ props.isV2Preview)))
    /\ saveCalls > 0 => props.dashboardInfo.dash_save_perm

\* a principal with save but without edit permission has saved
C6_Witness ==
    /\ "save" \in view.rendered
    /\ ~props.dashboardInfo.dash_edit_perm
    /\ ~props.isV2Preview
    /\ saveCalls > 0

\* C7: each call of overwriteDashboard issues exactly one onSave request made
\* of the current layout, expandedSlices, css, dashboardTitle and serialized
\* filters, with the current dashboard id and SAVE_TYPE_OVERWRITE; no other
\* step (the save settling with success or failure included) issues a request.
C7_OneRequestPerCall ==
    [][ /\ saveCalls' # saveCalls =>
            /\ saveCalls' = saveCalls + 1
            /\ saveRequests' = Append(saveRequests,
                  [data |-> [positions |-> props.layout,
                             expanded_slices |-> props.expandedSlices,
                             css |-> props.css,
                             dashboard_title |-> props.dashboardTitle,
                             default_filters |-> JSONStringify(props.filters)],
                   id |-> props.dashboardInfo.id,
                   saveType |-> SAVE_TYPE_OVERWRITE])
        /\ saveCalls' = saveCalls => saveRequests' = saveRequests ]_vars

\* two different dashboards were saved, both saves have settled
C7_Witness ==
    /\ Len(saveRequests) = 2
    /\ savePending = 0
    /\ saveRequests[1].data.default_filters = "{\"7\":{\"region\":[\"EU\",\"US\"]}}"
    /\ saveRequests[1].data.dashboard_title = "Sales Q3"
    /\ saveRequests[2].data.default_filters = "{}"
    /\ saveRequests[2].id = 12

\* C8: callbackHandler calls the callback exactly once, with (true, data)
\* when status is 200 and with (false, message) for every other status, and
\* calls nothing when no callback is given.
C8_CallbackOnce ==
    utilCall.fn = "callbackHandler" =>
        LET r == utilCall.response
            ok == r.status.t = "number" /\ r.status.v = 200
        IN  utilResult.calls =
                IF ~utilCall.hasCallback THEN <<>>
                ELSE IF ok THEN <<[success |-> TRUE, payload |-> r.data]>>
                ELSE <<[success |-> FALSE, payload |-> r.message]>>

\* status 500 with message "err" yields (false, "err")
C8_Witness ==
    /\ utilCall.fn = "callbackHandler"
    /\ utilCall.hasCallback
    /\ utilCall.response.status = Num(500)
    /\ utilCall.response.message = "err"
    /\ utilResult.calls = <<[success |-> FALSE, payload |-> "err"]>>

\* C9: json fails with the 'no response' error when the response is absent,
\* has no json method or has status 404 (with or without a body), and in
\* every other case returns what response.json() returns.
C9_JsonOrFail ==
    utilCall.fn = "json" =>
        LET r == utilCall.response
            is404 == (r.status.t = "number" /\ r.status.v = 404)
                     \/ (r.status.t = "string" /\ r.status.s = "404")
        IN  IF ~r.present \/ ~r.hasJson \/ is404
            THEN utilResult.kind = "throw" /\ utilResult.error = "no response"
            ELSE utilResult.kind = "return"
                 /\ utilResult.value = [promiseOfBody |-> r.body]

\* a 404 response that has a json method and a body fails
C9_Witness ==
    /\ utilCall.fn = "json"
    /\ utilCall.response.present
    /\ utilCall.response.hasJson
    /\ utilCall.response.status = Num(404)
    /\ utilCall.response.body # "none"
    /\ utilResult.kind = "throw"

\* C10: a lookup with a registered placeholder id returns its type tag, and
\* a lookup with any other id returns the "unknown" marker.
C10_UnknownMarker ==
    utilCall.fn = "lookup" =>
        IF utilCall.id \in DOMAIN Registry
        THEN utilResult = [kind |-> "type", value |-> Registry[utilCall.id]]
        ELSE utilResult.kind = "undefined"

\* C11: setMaxUndoHistoryExceeded is requested at the first update with
\* undoLength > UNDO_LIMIT, never on an update with undoLength <= UNDO_LIMIT
\* and never again once the flag is set: exactly one request once the limit
\* was exceeded, none before.
C11_ExceededRequestedOnce == exceededCalls = (IF seenAboveLimit THEN 1 ELSE 0)

\* C12: after componentWillUnmount no pulse timer is armed, so none fires,
\* and this.state is not updated any more, whatever handleCtrlZ /
\* handleCtrlY calls, commits and timer expiries came before.
C12_NoTimerAfterUnmount ==
    /\ [](~mounted => (timers = {} /\ updateQueue = <<>>))
    /\ [][~mounted => (state' = state /\ mounted' = mounted)]_vars

\* unmounted with the undo timer armed at that moment and the callback of a
\* redo call still waiting for its commit
C12_Witness ==
    /\ ~mounted
    /\ Flag("Z")
    /\ sinceCall["Z"] = 0
    /\ sinceCall["Y"] = 0
    /\ ~Flag("Y")
    /\ ctrlZTimeout # 0
    /\ ctrlYTimeout = 0
    /\ timers = {}

====
